---- MODULE Spec2Model ----
(***************************************************************************)
(* pybadges: the badge() entry point and the image resolver _embed_image.  *)
(*                                                                         *)
(* A Python str is a sequence of one-character strings, so that prefix     *)
(* tests, scheme parsing, splitting and lower-casing are computed as the   *)
(* code computes them.  Python's None is the value None below, which is no *)
(* sequence of single characters.                                          *)
(***************************************************************************)
EXTENDS Integers, Sequences, FiniteSets, TLC

VARIABLES req, pc, logo, right_image, center_image, error, io, resolved,
          last, measured, fields, result

vars == <<req, pc, logo, right_image, center_image, error, io, resolved,
          last, measured, fields, result>>

None == <<"None">>

\* Python truthiness of an Optional[str]: None and "" are falsy.
Truthy(v) == v # None /\ v # <<>>

----------------------------------------------------------------------------
(* String helpers: str.startswith, str.find, str.lower, slicing.           *)

StartsWith(s, p) == Len(s) >= Len(p) /\ SubSeq(s, 1, Len(p)) = p

\* s.find(c): the first index (1-based) holding c, 0 when there is none.
Find(s, c) ==
    IF \E i \in 1..Len(s) : s[i] = c
        THEN CHOOSE i \in 1..Len(s) : s[i] = c /\ \A j \in 1..(i - 1) : s[j] # c
        ELSE 0

\* s.rfind(c): the last index holding c, 0 when there is none.
RFind(s, c) ==
    IF \E i \in 1..Len(s) : s[i] = c
        THEN CHOOSE i \in 1..Len(s) : s[i] = c /\ \A j \in (i + 1)..Len(s) : s[j] # c
        ELSE 0

UpperToLower ==
    [c \in {"A", "D", "E", "G", "H", "I", "M", "P", "S", "T", "V"} |->
        CASE c = "A" -> "a" [] c = "D" -> "d" [] c = "E" -> "e" [] c = "G" -> "g"
          [] c = "H" -> "h" [] c = "I" -> "i" [] c = "M" -> "m" [] c = "P" -> "p"
          [] c = "S" -> "s" [] c = "T" -> "t" [] c = "V" -> "v"]

LowerChar(c) == IF c \in DOMAIN UpperToLower THEN UpperToLower[c] ELSE c

Lower(s) == [i \in 1..Len(s) |-> LowerChar(s[i])]

Letters ==
    {"a", "b", "c", "d", "e", "f", "g", "h", "i", "l", "m", "n", "o", "p", "r", "s",
     "t", "u", "v", "x"} \cup DOMAIN UpperToLower

\* urllib.parse.scheme_chars: letters, digits and "+-.".
SchemeChars == Letters \cup {"0", "1", "+", "-", "."}

\* urllib.parse.urlparse(url).scheme: the text before the first ":" when it
\* starts with a letter and holds scheme characters only, lower-cased; else "".
UrlScheme(url) ==
    LET i == Find(url, ":")
    IN  IF i > 1 /\ url[1] \in Letters /\ \A k \in 1..(i - 1) : url[k] \in SchemeChars
            THEN Lower(SubSeq(url, 1, i - 1))
            ELSE <<>>

\* content_type.split("/", 1): one part when there is no "/", else two.
SplitSlash(s) ==
    LET i == Find(s, "/")
    IN  IF i = 0 THEN <<s>>
        ELSE <<SubSeq(s, 1, i - 1), SubSeq(s, i + 1, Len(s))>>

----------------------------------------------------------------------------
(* Literals of the source.                                                 *)

DataPrefix == <<"d", "a", "t", "a", ":">>
Http == <<"h", "t", "t", "p">>
Https == <<"h", "t", "t", "p", "s">>
Image == <<"i", "m", "a", "g", "e">>
ImageSlash == <<"i", "m", "a", "g", "e", "/">>
SvgTag == <<"<", "s", "v", "g">>
ImageSvgXml == <<"i", "m", "a", "g", "e", "/", "s", "v", "g", "+", "x", "m", "l">>
ImagePng == <<"i", "m", "a", "g", "e", "/", "p", "n", "g">>
TextPlain == <<"t", "e", "x", "t", "/", "p", "l", "a", "i", "n">>
ApplicationPdf ==
    <<"a", "p", "p", "l", "i", "c", "a", "t", "i", "o", "n", "/", "p", "d", "f">>

\* data[:500]
HeadLen == 500

NoError == [type |-> "none", msg |-> "", arg |-> <<>>]
ValueError(m, a) == [type |-> "ValueError", msg |-> m, arg |-> a]
HTTPError == [type |-> "HTTPError", msg |-> "", arg |-> <<>>]
ConnectionError == [type |-> "ConnectionError", msg |-> "", arg |-> <<>>]
OSError == [type |-> "OSError", msg |-> "", arg |-> <<>>]

MsgLinks == "whole_link may not bet set with left_link, right_link, or center_link"
MsgNoRight == "cannot have a center_image without a right element"
MsgCenter == "must have both a center_image and a center_color"
MsgScheme == "unsupported scheme"
MsgNoContentType == "no \"Content-Type\" header"
MsgNotImage == "expected an image, got"
MsgUnknownType == "not able to determine file type"
MsgUnpack == "not enough values to unpack"

----------------------------------------------------------------------------
(* The environment: what a GET may answer and what a file may hold.        *)

\* requests.Response as the code reads it: status_code, the Content-Type
\* header (None when the header is missing) and the body.  conn = FALSE is a
\* connection failure: requests.get raises before any response exists.
Response(conn, status, ct, body) ==
    [conn |-> conn, status |-> status, content_type |-> ct, content |-> body]

NoResponse == Response(FALSE, 0, None, "")

Statuses == {200, 304, 404, 503}

ContentTypes ==
    {None, <<>>, ImagePng, <<"I", "M", "A", "G", "E", "/", "p", "n", "g">>,
     TextPlain, Image}

Responses ==
    {NoResponse} \cup
    {Response(TRUE, s, ct, "body") : s \in Statuses, ct \in ContentTypes}

\* The bytes of a local file: sig is the magic-byte signature at offset 0,
\* svgAt the offset of the four bytes svgTok (-1: the bytes hold no such tag).
\* exists = FALSE is a path open() cannot read.
File(id, sig, svgAt, svgTok) ==
    [exists |-> TRUE, id |-> id, sig |-> sig, svgAt |-> svgAt, svgTok |-> svgTok]

NoFile == [exists |-> FALSE, id |-> "", sig |-> "none", svgAt |-> -1, svgTok |-> <<>>]

Files ==
    {NoFile,
     File("png", "png", -1, <<>>),
     File("png-svg", "png", 8, SvgTag),
     File("pdf", "pdf", -1, <<>>),
     File("pdf-svg", "pdf", 8, SvgTag),
     File("svg", "none", 0, SvgTag),
     File("SVG", "none", 0, <<"<", "S", "V", "G">>),
     File("svg-edge", "none", HeadLen - 4, SvgTag),
     File("svg-late", "none", HeadLen - 3, SvgTag),
     File("plain", "none", -1, <<>>)}

----------------------------------------------------------------------------
(* Library calls of the resolver.                                          *)

\* raise_for_status left out: an error status is not noticed.
RaisesForStatusNever(status) == FALSE

\* Response.raise_for_status(): raises HTTPError for 4xx and 5xx.
RaisesForStatus(status) == 400 <= status /\ status < 600

\* filetype.guess(data): the kind's MIME type from the magic bytes, or None.
FiletypeGuess(data) ==
    CASE data.sig = "png" -> ImagePng
      [] data.sig = "pdf" -> ApplicationPdf
      [] OTHER -> None

\* b"<svg" in data[:500].lower()
SvgInHead(data) ==
    /\ data.svgAt >= 0
    /\ data.svgAt + Len(data.svgTok) <= HeadLen
    /\ Lower(data.svgTok) = SvgTag

\* mimetypes.guess_type(path)[0]: by the extension of the last path component.
GuessType(path) ==
    LET slash == RFind(path, "/")
        base == SubSeq(path, slash + 1, Len(path))
        dot == RFind(base, ".")
        ext == IF dot > 1 THEN SubSeq(base, dot + 1, Len(base)) ELSE <<>>
    IN  CASE ext = <<"p", "n", "g">> -> ImagePng
          [] ext = <<"t", "x", "t">> -> TextPlain
          [] OTHER -> None

\* base64.b64encode(data).decode("ascii")
B64Encode(id) == <<"b64(", id, ")">>

\* f"data:{mime};base64,{encoded}"
DataUri(mime, encoded) ==
    DataPrefix \o mime \o <<";", "b", "a", "s", "e", "6", "4", ",">> \o encoded

----------------------------------------------------------------------------
(* The resolver.  Each operator returns what the call did: whether it      *)
(* raised and what, the value returned, the I/O it issued (io), whether    *)
(* the Content-Type header was read (inspected) and which MIME stages of   *)
(* the local path were consulted (stages).                                 *)

Outcome(raised, err, data, mime, ioEvents, inspected, stages) ==
    [raised |-> raised, err |-> err, data |-> data, mime |-> mime,
     io |-> ioEvents, inspected |-> inspected, stages |-> stages]

Raise(err, ioEvents, inspected, stages) ==
    Outcome(TRUE, err, "", <<>>, ioEvents, inspected, stages)

Get(url) == [op |-> "GET", target |-> url]
Open(path) == [op |-> "open", target |-> path]

\* _fetch_remote_image that asks a second time after an error status.
FetchRemoteImageRetry(url, resp) ==
    IF ~resp.conn THEN Raise(ConnectionError, <<Get(url)>>, FALSE, <<>>)
    ELSE IF RaisesForStatus(resp.status)
        THEN Raise(HTTPError, <<Get(url), Get(url)>>, FALSE, <<>>)
    ELSE IF ~Truthy(resp.content_type) \/ Len(SplitSlash(resp.content_type)) # 2
        THEN Raise(ValueError(MsgNoContentType, <<>>), <<Get(url)>>, TRUE, <<>>)
    ELSE IF Lower(SplitSlash(resp.content_type)[1]) # Image
        THEN Raise(ValueError(MsgNotImage, SplitSlash(resp.content_type)[1]),
                   <<Get(url)>>, TRUE, <<>>)
    ELSE Outcome(FALSE, NoError, resp.content, resp.content_type,
                 <<Get(url)>>, TRUE, <<>>)

\* _fetch_remote_image(url), the GET answering resp.
FetchRemoteImage(url, resp) ==
    LET parts == SplitSlash(resp.content_type)
    IN  IF ~resp.conn THEN Raise(ConnectionError, <<Get(url)>>, FALSE, <<>>)
        ELSE IF RaisesForStatus(resp.status)
            THEN Raise(HTTPError, <<Get(url)>>, FALSE, <<>>)
        ELSE IF ~Truthy(resp.content_type)
            THEN Raise(ValueError(MsgNoContentType, <<>>), <<Get(url)>>, TRUE, <<>>)
        ELSE IF Len(parts) # 2
            THEN Raise(ValueError(MsgUnpack, <<>>), <<Get(url)>>, TRUE, <<>>)
        ELSE IF Lower(parts[1]) # Image
            THEN Raise(ValueError(MsgNotImage, parts[1]), <<Get(url)>>, TRUE, <<>>)
        ELSE Outcome(FALSE, NoError, resp.content, resp.content_type,
                     <<Get(url)>>, TRUE, <<>>)

\* _fetch_local_image_and_mime that looks for "<svg" before sniffing.
FetchLocalImageAndMimeSvgFirst(path, data) ==
    LET kind == FiletypeGuess(data)
        guessed_mime == GuessType(path)
    IN  IF ~data.exists THEN Raise(OSError, <<Open(path)>>, FALSE, <<>>)
        ELSE IF SvgInHead(data)
            THEN Outcome(FALSE, NoError, data.id, ImageSvgXml,
                         <<Open(path)>>, FALSE, <<"svg">>)
        ELSE IF kind # None
            THEN IF ~StartsWith(kind, ImageSlash)
                    THEN Raise(ValueError(MsgNotImage, SplitSlash(kind)[1]),
                               <<Open(path)>>, FALSE, <<"svg", "sniff">>)
                    ELSE Outcome(FALSE, NoError, data.id, kind,
                                 <<Open(path)>>, FALSE, <<"svg", "sniff">>)
        ELSE IF guessed_mime # None /\ SplitSlash(guessed_mime)[1] = Image
            THEN Outcome(FALSE, NoError, data.id, guessed_mime,
                         <<Open(path)>>, FALSE, <<"svg", "sniff", "ext">>)
        ELSE Raise(ValueError(MsgUnknownType, <<>>),
                   <<Open(path)>>, FALSE, <<"svg", "sniff", "ext">>)

\* _fetch_local_image_and_mime(path), the file at path holding data.
FetchLocalImageAndMime(path, data) ==
    LET kind == FiletypeGuess(data)
        guessed_mime == GuessType(path)
    IN  IF ~data.exists THEN Raise(OSError, <<Open(path)>>, FALSE, <<>>)
        ELSE IF kind # None
            THEN IF ~StartsWith(kind, ImageSlash)
                    THEN Raise(ValueError(MsgNotImage, SplitSlash(kind)[1]),
                               <<Open(path)>>, FALSE, <<"sniff">>)
                    ELSE Outcome(FALSE, NoError, data.id, kind,
                                 <<Open(path)>>, FALSE, <<"sniff">>)
        ELSE IF SvgInHead(data)
            THEN Outcome(FALSE, NoError, data.id, ImageSvgXml,
                         <<Open(path)>>, FALSE, <<"sniff", "svg">>)
        ELSE IF guessed_mime # None
            THEN IF SplitSlash(guessed_mime)[1] # Image
                    THEN Raise(ValueError(MsgNotImage, SplitSlash(guessed_mime)[1]),
                               <<Open(path)>>, FALSE, <<"sniff", "svg", "ext">>)
                    ELSE Outcome(FALSE, NoError, data.id, guessed_mime,
                                 <<Open(path)>>, FALSE, <<"sniff", "svg", "ext">>)
        ELSE Raise(ValueError(MsgUnknownType, <<>>),
                   <<Open(path)>>, FALSE, <<"sniff", "svg", "ext">>)

\* _embed_image without the unsupported-scheme branch: any other reference
\* is read as a local path.
DispatchNoUnsupported(url) ==
    IF StartsWith(url, DataPrefix) THEN "data"
    ELSE IF UrlScheme(url) \in {Http, Https} THEN "remote"
    ELSE "local"

\* Which branch of _embed_image a reference takes.
Dispatch(url) ==
    IF StartsWith(url, DataPrefix) THEN "data"
    ELSE IF UrlScheme(url) \in {Http, Https} THEN "remote"
    ELSE IF UrlScheme(url) # <<>> THEN "unsupported"
    ELSE "local"

\* _embed_image(url): the value returned (value) next to the Outcome fields.
EmbedImage(url, resp, data) ==
    LET form == Dispatch(url)
        got == CASE form = "remote" -> FetchRemoteImage(url, resp)
                 [] form = "local" -> FetchLocalImageAndMime(url, data)
                 [] form = "unsupported" ->
                        Raise(ValueError(MsgScheme, UrlScheme(url)), <<>>, FALSE, <<>>)
                 [] OTHER -> Outcome(FALSE, NoError, "", <<>>, <<>>, FALSE, <<>>)
        value == IF form = "data" THEN url
                 ELSE IF got.raised THEN None
                 ELSE DataUri(got.mime, B64Encode(got.data))
    IN  [url |-> url, form |-> form, value |-> value,
         resp |-> IF form = "remote" THEN resp ELSE NoResponse,
         file |-> IF form = "local" THEN data ELSE NoFile,
         raised |-> got.raised, err |-> got.err, io |-> got.io,
         inspected |-> got.inspected, stages |-> got.stages]

----------------------------------------------------------------------------
(* Colours.                                                                *)

\* _NAME_TO_COLOR as a set of <<name, colour>> pairs.
NameToColor ==
    {
        <<<<"b", "r", "i", "g", "h", "t", "g", "r", "e", "e", "n">>,
          <<"#", "4", "c", "1">>>>,
        <<<<"g", "r", "e", "e", "n">>,
          <<"#", "9", "7", "C", "A", "0", "0">>>>,
        <<<<"y", "e", "l", "l", "o", "w">>,
          <<"#", "d", "f", "b", "3", "1", "7">>>>,
        <<<<"y", "e", "l", "l", "o", "w", "g", "r", "e", "e", "n">>,
          <<"#", "a", "4", "a", "6", "1", "d">>>>,
        <<<<"o", "r", "a", "n", "g", "e">>,
          <<"#", "f", "e", "7", "d", "3", "7">>>>,
        <<<<"r", "e", "d">>,
          <<"#", "e", "0", "5", "d", "4", "4">>>>,
        <<<<"b", "l", "u", "e">>,
          <<"#", "0", "0", "7", "e", "c", "6">>>>,
        <<<<"g", "r", "e", "y">>,
          <<"#", "5", "5", "5">>>>,
        <<<<"g", "r", "a", "y">>,
          <<"#", "5", "5", "5">>>>,
        <<<<"l", "i", "g", "h", "t", "g", "r", "e", "y">>,
          <<"#", "9", "f", "9", "f", "9", "f">>>>,
        <<<<"l", "i", "g", "h", "t", "g", "r", "a", "y">>,
          <<"#", "9", "f", "9", "f", "9", "f">>>>,
        <<<<"c", "r", "i", "t", "i", "c", "a", "l">>,
          <<"#", "e", "0", "5", "d", "4", "4">>>>,
        <<<<"i", "m", "p", "o", "r", "t", "a", "n", "t">>,
          <<"#", "f", "e", "7", "d", "3", "7">>>>,
        <<<<"s", "u", "c", "c", "e", "s", "s">>,
          <<"#", "4", "c", "1">>>>,
        <<<<"i", "n", "f", "o", "r", "m", "a", "t", "i", "o", "n", "a", "l">>,
          <<"#", "0", "0", "7", "e", "c", "6">>>>,
        <<<<"i", "n", "a", "c", "t", "i", "v", "e">>,
          <<"#", "9", "f", "9", "f", "9", "f">>>>
    }

\* _NAME_TO_COLOR.get(color, color)
ResolveColor(color) ==
    IF \E p \in NameToColor : p[1] = color
        THEN (CHOOSE p \in NameToColor : p[1] = color)[2]
        ELSE color

----------------------------------------------------------------------------
(* Requests.                                                               *)

Str_u == <<"u">>
Str_ok == <<"o", "k">>
Str_build == <<"b", "u", "i", "l", "d">>
Str_red == <<"r", "e", "d">>
Str_green == <<"g", "r", "e", "e", "n">>
DefaultLeftColor == <<"#", "5", "5", "5">>
DefaultRightColor == <<"#", "0", "0", "7", "e", "c", "6">>

Ref_data == <<"d", "a", "t", "a", ":", "x">>
Ref_Data == <<"D", "a", "t", "a", ":", "x">>
Ref_http == <<"h", "t", "t", "p", ":", "/", "/", "h">>
Ref_HTTPS == <<"H", "T", "T", "P", "S", ":", "/", "/", "h">>
Ref_ftp == <<"f", "t", "p", ":", "/", "/", "h">>
Ref_file == <<"f", "i", "l", "e", ":", "a">>
Ref_png == <<"a", ".", "p", "n", "g">>
Ref_txt == <<"a", ".", "t", "x", "t">>
Ref_bare == <<"a">>
Ref_colon == <<"d", "/", "a", ":", "b">>
Ref_nested == <<"d", "/", "a", ".", "p", "n", "g">>

\* Every form of image reference, with None and "".
Refs ==
    {None, <<>>, Ref_data, Ref_Data, Ref_http, Ref_HTTPS, Ref_ftp, Ref_file,
     Ref_png, Ref_txt, Ref_bare, Ref_colon, Ref_nested}

\* One reference of each form.
FewRefs == {None, Ref_data, Ref_HTTPS, Ref_ftp, Ref_nested}

\* What a GET of url may answer: anything for Ref_http, an image or a 404
\* for Ref_HTTPS.
Web(url) ==
    CASE url = Ref_http -> Responses
      [] url = Ref_HTTPS -> {Response(TRUE, 200, ImagePng, "body"),
                             Response(TRUE, 404, TextPlain, "body")}
      [] OTHER -> {NoResponse}

\* What the file at path may hold: anything for Ref_png, Ref_txt and
\* Ref_bare, a PNG image or nothing readable for the other names.
Disk(path) ==
    CASE path \in {Ref_png, Ref_txt, Ref_bare} -> Files
      [] OTHER -> {NoFile, File("png", "png", -1, <<>>)}

\* The arguments of one call: texts, links, logo, right and centre colour,
\* right and centre image, the three embed flags; the rest at its default.
Request(lt, rt, ll, rl, cl, wl, lg, rc, cc, ri, ci, el, er, ec) ==
    [left_text |-> lt, right_text |-> rt,
     left_link |-> ll, right_link |-> rl, center_link |-> cl, whole_link |-> wl,
     logo |-> lg, left_color |-> DefaultLeftColor,
     right_color |-> rc, center_color |-> cc,
     left_title |-> None, right_title |-> None, center_title |-> None,
     whole_title |-> None, right_image |-> ri, center_image |-> ci,
     embed_logo |-> el, embed_right_image |-> er,
     embed_center_image |-> ec, id_suffix |-> <<>>]

\* Requests that vary the texts, the links, the centre fields and the right
\* segment.
LinkRequests ==
    {Request(lt, rt, ll, rl, cl, wl, None, Str_green, cc, ri, ci, e, e, e) :
        lt \in {<<>>, Str_build}, rt \in {None, <<>>, Str_ok},
        ll \in {None, <<>>, Str_u}, rl \in {None, Str_u}, cl \in {None, Str_u},
        wl \in {None, <<>>, Str_u},
        cc \in {None, <<>>, Str_red},
        ri \in {None, Ref_data, Ref_HTTPS}, ci \in {None, <<>>, Ref_data, Ref_nested},
        e \in BOOLEAN}

\* Triples of references of which at most one lies outside FewRefs.
RefTriples ==
    {t \in Refs \X Refs \X Refs :
        Cardinality({i \in 1..3 : t[i] \notin FewRefs}) <= 1}

\* Requests that vary the image references and the embed flags.
ImageRequests ==
    {Request(Str_build, Str_ok, None, None, None, None, t[1], DefaultRightColor,
             IF Truthy(t[3]) THEN Str_red ELSE None, t[2], t[3], el, er, ec) :
        t \in RefTriples, el \in BOOLEAN, er \in BOOLEAN, ec \in BOOLEAN}

Requests == LinkRequests \cup ImageRequests

----------------------------------------------------------------------------
(* badge(): validation.                                                    *)

\* The check as the docstring words it: left_link and right_link only.
LinkConflictNoCenter(r) ==
    /\ Truthy(r.left_link) \/ Truthy(r.right_link)
    /\ Truthy(r.whole_link)

\* (left_link or right_link or center_link) and whole_link
LinkConflict(r) ==
    /\ Truthy(r.left_link) \/ Truthy(r.right_link) \/ Truthy(r.center_link)
    /\ Truthy(r.whole_link)

\* The check with the right text alone as the right element.
CenterWithoutRightText(r) == Truthy(r.center_image) /\ ~Truthy(r.right_text)

\* center_image and not (right_image or right_text)
CenterWithoutRight(r) ==
    /\ Truthy(r.center_image)
    /\ ~(Truthy(r.right_image) \/ Truthy(r.right_text))

\* The check in one direction only.
CenterMismatchOneWay(r) == Truthy(r.center_image) /\ ~Truthy(r.center_color)

\* (center_image and not center_color) or (not center_image and center_color)
CenterMismatch(r) ==
    \/ Truthy(r.center_image) /\ ~Truthy(r.center_color)
    \/ ~Truthy(r.center_image) /\ Truthy(r.center_color)

\* The first of the three checks that raises, in the order of the source.
ValidationError(r) ==
    IF LinkConflict(r) THEN ValueError(MsgLinks, <<>>)
    ELSE IF CenterWithoutRight(r) THEN ValueError(MsgNoRight, <<>>)
    ELSE IF CenterMismatch(r) THEN ValueError(MsgCenter, <<>>)
    ELSE NoError

----------------------------------------------------------------------------
(* badge(): the statements in the order of the source.                     *)

\* The first asset resolved before the request is validated.
StagesValidateLate ==
    <<"embed_logo", "embed_right_image", "validate", "embed_center_image", "render">>

\* The centre image resolved before the right image.
StagesCenterFirst ==
    <<"validate", "embed_logo", "embed_center_image", "embed_right_image", "render">>

Stages ==
    <<"validate", "embed_logo", "embed_right_image", "embed_center_image", "render">>

StageIndex(stage) == CHOOSE i \in 1..Len(Stages) : Stages[i] = stage

After(stage) ==
    IF StageIndex(stage) = Len(Stages) THEN "done" ELSE Stages[StageIndex(stage) + 1]

\* Largest multiple of five raw units the measurer answers.
MaxWidth == 1

RawWidths == {5 * k : k \in 0..MaxWidth}

\* measurer.text_width(text) / 10.0, as <<whole part, tenths>>.
WidthUnits(raw) == <<raw \div 10, raw % 10>>

\* template.render(...), _remove_blanks, normalize and toxml: the document
\* rendered from the field set.
TemplateRender(f) == <<"svg", f>>

NoCall ==
    [asset |-> "", url |-> None, form |-> "", value |-> None, resp |-> NoResponse,
     file |-> NoFile, raised |-> FALSE, err |-> NoError, io |-> <<>>,
     inspected |-> FALSE, stages |-> <<>>]

Init ==
    /\ req \in Requests
    /\ pc = Stages[1]
    /\ logo = req.logo
    /\ right_image = req.right_image
    /\ center_image = req.center_image
    /\ error = NoError
    /\ io = <<>>
    /\ resolved = <<>>
    /\ last = NoCall
    /\ measured = <<>>
    /\ fields = None
    /\ result = None

\* Lines 255-264: the three checks.
Validate ==
    /\ pc = "validate"
    /\ IF ValidationError(req) # NoError
          THEN /\ pc' = "raised"
               /\ error' = ValidationError(req)
          ELSE /\ pc' = After("validate")
               /\ UNCHANGED error
    /\ UNCHANGED <<req, logo, right_image, center_image, io, resolved, last,
                   measured, fields, result>>

\* One "if <ref> and <flag>: <ref> = _embed_image(<ref>)" statement; the new
\* value of the reference is v.
EmbedStep(stage, asset, ref, flag, v) ==
    /\ pc = stage
    /\ IF Truthy(ref) /\ flag
          THEN \E resp \in Web(ref), data \in Disk(ref) :
                  LET call == EmbedImage(ref, resp, data)
                  IN  /\ last' = [call EXCEPT !.url = ref] @@ [asset |-> asset]
                      /\ io' = io \o call.io
                      /\ resolved' = Append(resolved, asset)
                      /\ IF call.raised
                            THEN /\ pc' = "raised"
                                 /\ error' = call.err
                                 /\ v = ref
                            ELSE /\ pc' = After(stage)
                                 /\ v = call.value
                                 /\ UNCHANGED error
          ELSE /\ pc' = After(stage)
               /\ v = ref
               /\ UNCHANGED <<error, io, resolved, last>>
    /\ UNCHANGED <<req, measured, fields, result>>

\* Lines 266-267.
EmbedLogo ==
    /\ EmbedStep("embed_logo", "logo", logo, req.embed_logo, logo')
    /\ UNCHANGED <<right_image, center_image>>

\* Lines 269-270.
EmbedRightImage ==
    /\ EmbedStep("embed_right_image", "right_image", right_image,
                 req.embed_right_image, right_image')
    /\ UNCHANGED <<logo, center_image>>

\* Lines 272-273.
EmbedCenterImage ==
    /\ EmbedStep("embed_center_image", "center_image", center_image,
                 req.embed_center_image, center_image')
    /\ UNCHANGED <<logo, right_image>>

MeasureCall(which, text, raw) == [which |-> which, text |-> text, raw |-> raw]

\* Lines 278-280: the calls of the measurer for the right text.
RightTextCalls(r, raw) ==
    IF Truthy(r.right_text) THEN <<MeasureCall("right_text", r.right_text, raw)>>
    ELSE <<>>

\* right_text_width computed whenever right_text is not None.
RightTextWidthNotNone(r, raw) == IF r.right_text # None THEN WidthUnits(raw) ELSE None

\* Lines 278-280: right_text_width.
RightTextWidth(r, raw) == IF Truthy(r.right_text) THEN WidthUnits(raw) ELSE None

\* Line 287: left_text_width.
LeftTextWidth(r, raw) == WidthUnits(raw)

\* Lines 284-304: the keyword arguments of template.render.
RenderFields(r, lg, ri, ci, leftRaw, rightRaw) ==
    [left_text |-> r.left_text, right_text |-> r.right_text,
     left_text_width |-> LeftTextWidth(r, leftRaw),
     right_text_width |-> RightTextWidth(r, rightRaw),
     left_link |-> r.left_link, right_link |-> r.right_link,
     whole_link |-> r.whole_link, center_link |-> r.center_link,
     logo |-> lg,
     left_color |-> ResolveColor(r.left_color),
     right_color |-> ResolveColor(r.right_color),
     center_color |-> IF Truthy(r.center_color) THEN ResolveColor(r.center_color)
                      ELSE r.center_color,
     left_title |-> r.left_title, right_title |-> r.right_title,
     center_title |-> r.center_title, whole_title |-> r.whole_title,
     right_image |-> ri, center_image |-> ci, id_suffix |-> r.id_suffix]

\* Lines 275-308: colours, measuring, rendering, normalising.
Render ==
    /\ pc = "render"
    /\ \E leftRaw \in RawWidths, rightRaw \in RawWidths :
          /\ measured' = RightTextCalls(req, rightRaw)
                            \o <<MeasureCall("left_text", req.left_text, leftRaw)>>
          /\ fields' = RenderFields(req, logo, right_image, center_image,
                                    leftRaw, rightRaw)
    /\ result' = TemplateRender(fields')
    /\ pc' = After("render")
    /\ UNCHANGED <<req, logo, right_image, center_image, error, io, resolved, last>>

Next == Validate \/ EmbedLogo \/ EmbedRightImage \/ EmbedCenterImage \/ Render

Spec == Init /\ [][Next]_vars

----------------------------------------------------------------------------
(* Properties.  "Set" is the reading of the specification's "set": given   *)
(* and non-empty.  The expectations below are written from the             *)
(* specification's sentences over the concrete references, responses and   *)
(* files, not through the operators of the model.                          *)

Set(v) == v # None /\ v # <<>>

Terminal == pc \in {"done", "raised"}

IsRequestError(e) ==
    e.type = "ValueError" /\ e.msg \in {MsgLinks, MsgNoRight, MsgCenter}

WholeWithSegment(r) ==
    Set(r.whole_link) /\ (Set(r.left_link) \/ Set(r.right_link) \/ Set(r.center_link))

CenterNoRight(r) == Set(r.center_image) /\ ~Set(r.right_image) /\ ~Set(r.right_text)

ExactlyOneCenter(r) == Set(r.center_image) # Set(r.center_color)

Invalid(r) == WholeWithSegment(r) \/ CenterNoRight(r) \/ ExactlyOneCenter(r)

Count(op) == Cardinality({i \in DOMAIN io : io[i].op = op})

\* The assets the request asks to embed, in the order logo, right_image,
\* center_image.
AssetOrder == <<"logo", "right_image", "center_image">>

Wanted(r, asset) ==
    CASE asset = "logo" -> Set(r.logo) /\ r.embed_logo
      [] asset = "right_image" -> Set(r.right_image) /\ r.embed_right_image
      [] asset = "center_image" -> Set(r.center_image) /\ r.embed_center_image

Rank(asset) == CHOOSE i \in 1..3 : AssetOrder[i] = asset

C2_AtMostOneOfEach == Count("GET") <= 1 /\ Count("open") <= 1

\* C2 amended: every asset that is set with its embed flag on causes at most
\* one I/O operation (a network request or a file read), an asset whose flag
\* is off causes none, so one call performs at most three.
C2_OnePerEmbeddedAsset ==
    /\ Len(io) <= Len(resolved)
    /\ Len(resolved) <= Cardinality({a \in {"logo", "right_image", "center_image"} :
                                        Wanted(req, a)})
    /\ Len(io) <= 3
    /\ Len(last.io) <= 1

\* Three remote or local assets, three I/O operations.
C2_Witness == pc = "done" /\ Len(io) = 3 /\ Count("GET") = 2

\* C3: whole_link set together with a segment link fails with the
\* request-validation error; whole_link set alone is never rejected by
\* that rule.
C3_WholeLinkExclusive ==
    /\ (WholeWithSegment(req) /\ pc # "validate") =>
            pc = "raised" /\ error = ValueError(MsgLinks, <<>>)
    /\ (Set(req.whole_link) /\ ~WholeWithSegment(req)) => error.msg # MsgLinks

\* whole_link with center_link alone, rejected.
C3_Witness ==
    /\ pc = "raised"
    /\ error.msg = MsgLinks
    /\ Set(req.center_link) /\ ~Set(req.left_link) /\ ~Set(req.right_link)

C5_CenterNeedsRight ==
    /\ (CenterNoRight(req) /\ pc # "validate") =>
            /\ pc = "raised" /\ IsRequestError(error)
            /\ ~WholeWithSegment(req) => error = ValueError(MsgNoRight, <<>>)
    /\ (Set(req.center_image) /\ (Set(req.right_image) \/ Set(req.right_text))) =>
            error.msg # MsgNoRight

\* center_image and center_color set, no right element, rejected.
C5_Witness ==
    /\ pc = "raised"
    /\ error.msg = MsgNoRight
    /\ Set(req.center_color)
    /\ req.right_text = <<>>

NonSuccess(status) == ~(200 <= status /\ status < 300)

ErrorStatus(status) == 400 <= status /\ status <= 599

\* What C6 says of a resolver call whose fetch was answered with status s.
TransportFailure ==
    /\ last.raised
    /\ last.err.type = "HTTPError"
    /\ last.err.type # "ValueError"
    /\ last.io = <<[op |-> "GET", target |-> last.url]>>
    /\ ~last.inspected
    /\ pc = "raised"
    /\ error = last.err
    /\ result = None

C7_SequentialAbort ==
    /\ \A i, j \in DOMAIN resolved : i < j => Rank(resolved[i]) < Rank(resolved[j])
    /\ \A a \in {"logo", "right_image", "center_image"} :
          (\E i \in DOMAIN resolved : resolved[i] = a) => Wanted(req, a)
    /\ pc = "done" =>
          \A a \in {"logo", "right_image", "center_image"} :
              Wanted(req, a) => \E i \in DOMAIN resolved : resolved[i] = a
    /\ last.raised =>
          /\ pc = "raised"
          /\ error = last.err
          /\ last.asset = resolved[Len(resolved)]
          /\ measured = <<>>
          /\ result = None
    /\ (resolved # <<>> /\ ~last.raised) => pc # "raised"

\* The logo failed while a right and a centre image waited to be embedded.
C7_Witness ==
    /\ pc = "raised"
    /\ resolved = <<"logo">>
    /\ Wanted(req, "right_image") /\ req.right_image = Ref_HTTPS
    /\ Wanted(req, "center_image") /\ req.center_image = Ref_nested

\* The scheme an unsupported reference is reported with.
SchemeNamed(url) ==
    CASE url = Ref_ftp -> <<"f", "t", "p">>
      [] url = Ref_file -> <<"f", "i", "l", "e">>
      [] url = Ref_Data -> <<"d", "a", "t", "a">>

\* C8: a data-URI reference is returned unchanged without I/O; a reference
\* with another scheme than http/https fails with InvalidImageError naming
\* the scheme, without I/O; only a reference without scheme is read from the
\* file system, only an http/https reference is fetched.
C8_DispatchByForm ==
    /\ last.url = Ref_data =>
          ~last.raised /\ last.value = Ref_data /\ last.io = <<>>
    /\ last.url \in {Ref_ftp, Ref_file, Ref_Data} =>
          /\ last.raised
          /\ last.err = ValueError(MsgScheme, SchemeNamed(last.url))
          /\ last.io = <<>>
    /\ last.url \in {Ref_http, Ref_HTTPS} =>
          last.io = <<[op |-> "GET", target |-> last.url]>>
    /\ last.url \in {Ref_png, Ref_txt, Ref_bare, Ref_colon, Ref_nested} =>
          last.io = <<[op |-> "open", target |-> last.url]>>
    /\ \A i \in DOMAIN io :
          /\ io[i].op = "open" =>
                io[i].target \in {Ref_png, Ref_txt, Ref_bare, Ref_colon, Ref_nested}
          /\ io[i].op = "GET" => io[i].target \in {Ref_http, Ref_HTTPS}

\* An ftp reference, refused by name without I/O.
C8_Witness ==
    /\ pc = "raised"
    /\ last.url = Ref_ftp
    /\ error.arg = <<"f", "t", "p">>
    /\ io = <<>>

\* The MIME type the extension of a local reference maps to.
ExtensionType(path) ==
    CASE path \in {Ref_png, Ref_nested} -> ImagePng
      [] path = Ref_txt -> TextPlain
      [] OTHER -> None

\* The files whose first 500 bytes hold "<svg" in some case.
SvgFiles == {"svg", "SVG", "svg-edge", "png-svg", "pdf-svg"}

Embedded(mime, f) ==
    /\ ~last.raised
    /\ last.value = DataPrefix \o mime \o <<";", "b", "a", "s", "e", "6", "4", ",">>
                        \o <<"b64(", f.id, ")">>

Refused(major) == last.raised /\ last.err = ValueError(MsgNotImage, major)

\* C9: for a local reference the MIME type comes from the first of magic
\* bytes, "<svg" in the first 500 bytes, extension that gives a result: a
\* sniffed image type wins, a sniffed non-image type fails whatever the
\* content and the extension, "<svg" is used only when nothing was sniffed
\* and then wins over the extension, the extension only when both found
\* nothing, and with no result the resolver fails with "not able to
\* determine file type".
C9_LocalMimeStages ==
    LET f == last.file
        path == last.url
    IN  (path \in {Ref_png, Ref_txt, Ref_bare, Ref_colon, Ref_nested} /\ f.exists) =>
          /\ f.sig = "png" => Embedded(ImagePng, f) /\ last.stages = <<"sniff">>
          /\ f.sig = "pdf" =>
                /\ Refused(<<"a", "p", "p", "l", "i", "c", "a", "t", "i", "o", "n">>)
                /\ last.stages = <<"sniff">>
          /\ (f.sig = "none" /\ f.id \in SvgFiles) =>
                Embedded(ImageSvgXml, f) /\ last.stages = <<"sniff", "svg">>
          /\ (f.sig = "none" /\ f.id \notin SvgFiles) =>
                /\ last.stages = <<"sniff", "svg", "ext">>
                /\ ExtensionType(path) = ImagePng => Embedded(ImagePng, f)
                /\ ExtensionType(path) = TextPlain => Refused(<<"t", "e", "x", "t">>)
                /\ ExtensionType(path) = None =>
                      last.raised /\ last.err = ValueError(MsgUnknownType, <<>>)

\* A PDF that holds "<svg" under a .png name, refused as "application".
C9_Witness ==
    /\ pc = "raised"
    /\ last.url = Ref_png
    /\ last.file.id = "pdf-svg"
    /\ error.arg = <<"a", "p", "p", "l", "i", "c", "a", "t", "i", "o", "n">>

IsTenth(width, raw) ==
    /\ 10 * width[1] + width[2] = raw
    /\ width[2] \in 0..9

\* C10: left_text is always measured and its width / 10 passed on; the right
\* text is measured only when non-empty, and when it is absent or empty the
\* right width handed to the template is None, not 0, and the measurer was
\* not called for it.
C10_RightWidthOnlyIfText ==
    pc = "done" =>
        /\ \E i \in DOMAIN measured :
              /\ measured[i].which = "left_text"
              /\ measured[i].text = req.left_text
              /\ IsTenth(fields.left_text_width, measured[i].raw)
        /\ Set(req.right_text) =>
              /\ Len(measured) = 2
              /\ \E i \in DOMAIN measured :
                    /\ measured[i].which = "right_text"
                    /\ measured[i].text = req.right_text
                    /\ IsTenth(fields.right_text_width, measured[i].raw)
        /\ ~Set(req.right_text) =>
              /\ fields.right_text_width = None
              /\ fields.right_text_width # <<0, 0>>
              /\ Len(measured) = 1
              /\ \A i \in DOMAIN measured : measured[i].which # "right_text"

\* A badge rendered for right_text = "": no right width.
C10_Witness ==
    /\ pc = "done"
    /\ req.right_text = <<>>
    /\ req.left_text = Str_build
    /\ fields.right_text_width = None
    /\ Len(measured) = 1

====
